---- MODULE Spec2Model ----
(***************************************************************************)
(* Model of pkg/cache/initializer.go: building the partitions of a cluster *)
(* from the scheduler configuration (SetClusterInfoFromConfigFile),        *)
(* updating them from a reloaded configuration                             *)
(* (UpdateClusterInfoFromConfigFile) and the recursive check of the queue  *)
(* resource settings (checkResourceConfigurationsForQueue).                *)
(*                                                                         *)
(* Three specifications share the variables:                               *)
(*   Spec   the cluster info under sequences of Set/Update calls;          *)
(*   SpecV  the queue check applied to every queue tree of a bounded set;  *)
(*   SpecC  one call at a time running step by step next to a reader of    *)
(*          the partition map, the queue trees being objects of a heap.    *)
(***************************************************************************)
EXTENDS Integers, Sequences, FiniteSets, TLC

VARIABLES
    partitions,     \* clusterInfo.partitions: normalized name -> *PartitionInfo (or Nil)
    configContext,  \* configs.ConfigContext: policy group -> active SchedulerConfig
    last,           \* inputs and return values of the most recent call
    crashed,        \* TRUE once a call has ended in a nil-pointer panic
    vq,             \* SpecV: the queue tree handed to the check
    vres,           \* SpecV: the check's result, Nil until it has run
    heap,           \* SpecC: the queue trees allocated so far, by object identity
    call,           \* SpecC: the call in progress and its position
    reader          \* SpecC: the tree a reader of the map holds and what it last read

vars == <<partitions, configContext, last, crashed, vq, vres, heap, call, reader>>

-----------------------------------------------------------------------------
(* Bounds of the model *)

\* largest quantity of a resource dimension in a configured resource vector
MaxQty == 2
\* largest number of partition entries in one loaded configuration
MaxConfLen == 2
\* number of Set/Update calls in a run of SpecC
MaxCalls == 2

-----------------------------------------------------------------------------
(* Values *)

\* a nil pointer (of a resource, a queue or a partition)
Nil == [isNil |-> TRUE]

\* the nil error
NoErr == [kind |-> "nil"]

Dims == {"memory", "vcore"}

\* resources.Resource: dimension name -> signed quantity
\* resources.NewResource(): the empty vector
NewResource == [d \in {} |-> 0]

\* quantity of a dimension, absent dimension = 0
Quantity(r, d) == IF d \in DOMAIN r THEN r[d] ELSE 0

\* sum.AddTo(add): elementwise sum over the union of the dimensions
AddTo(sum, add) ==
    [d \in (DOMAIN sum) \cup (DOMAIN add) |-> Quantity(sum, d) + Quantity(add, d)]

\* resources.FitIn(larger, smaller): every dimension of either vector has
\* smaller[d] <= larger[d], absent dimensions counting as zero
FitIn(larger, smaller) ==
    \A d \in (DOMAIN larger) \cup (DOMAIN smaller) :
        Quantity(smaller, d) <= Quantity(larger, d)

-----------------------------------------------------------------------------
(* Queue trees *)

\* QueueInfo built from a QueueConfig: name, optional guaranteed and maximum
\* resources, children in configuration order
RECURSIVE NewQueueInfo(_)
NewQueueInfo(conf) ==
    [Name               |-> conf.Name,
     guaranteedResource |-> conf.Guaranteed,
     maxResource        |-> conf.Max,
     children           |-> [i \in 1..Len(conf.Queues) |-> NewQueueInfo(conf.Queues[i])]]

\* for _, child := range cur.children { sum.AddTo(child.guaranteedResource) }
RECURSIVE SumGuaranteed(_, _)
SumGuaranteed(children, n) ==
    IF n = 0 THEN NewResource
    ELSE AddTo(SumGuaranteed(children, n - 1), children[n].guaranteedResource)

\* GuaranteedStep without the comparison of a set guaranteed resource with
\* the sum of the children
GuaranteedStep_NoSumCheck(cur) ==
    IF cur.guaranteedResource # Nil THEN [err |-> NoErr, q |-> cur]
    ELSE [err |-> NoErr,
          q |-> [cur EXCEPT !.guaranteedResource =
                                SumGuaranteed(cur.children, Len(cur.children))]]

\* GuaranteedStep setting the guaranteed resource of a queue with children
\* to the sum of the children also when the queue declares one
GuaranteedStep_Overwrite(cur) ==
    IF Len(cur.children) > 0
    THEN LET sum == SumGuaranteed(cur.children, Len(cur.children))
         IN  IF cur.guaranteedResource # Nil /\ ~FitIn(cur.guaranteedResource, sum)
             THEN [err |-> [kind |-> "GuaranteedSum", queue |-> cur.Name,
                            larger |-> cur.guaranteedResource, smaller |-> sum],
                   q |-> cur]
             ELSE [err |-> NoErr, q |-> [cur EXCEPT !.guaranteedResource = sum]]
    ELSE IF cur.guaranteedResource = Nil
         THEN [err |-> NoErr, q |-> [cur EXCEPT !.guaranteedResource = NewResource]]
         ELSE [err |-> NoErr, q |-> cur]

\* the guaranteed part of the check of a node whose children were all checked:
\* returns the error and the node with its guaranteed resource filled in
GuaranteedStep(cur) ==
    IF Len(cur.children) > 0
    THEN LET sum == SumGuaranteed(cur.children, Len(cur.children))
         IN  IF cur.guaranteedResource # Nil
             THEN IF ~FitIn(cur.guaranteedResource, sum)
                  THEN [err |-> [kind |-> "GuaranteedSum", queue |-> cur.Name,
                                 larger |-> cur.guaranteedResource, smaller |-> sum],
                        q |-> cur]
                  ELSE [err |-> NoErr, q |-> cur]
             ELSE [err |-> NoErr, q |-> [cur EXCEPT !.guaranteedResource = sum]]
    ELSE IF cur.guaranteedResource = Nil
         THEN [err |-> NoErr, q |-> [cur EXCEPT !.guaranteedResource = NewResource]]
         ELSE [err |-> NoErr, q |-> cur]

\* MaxStep without the comparison with the maximum of the parent
MaxStep_NoParentCheck(cur, parent) ==
    IF cur.maxResource # Nil /\ ~FitIn(cur.maxResource, cur.guaranteedResource)
    THEN [kind |-> "MaxGuaranteed", queue |-> cur.Name,
          larger |-> cur.maxResource, smaller |-> cur.guaranteedResource]
    ELSE NoErr

\* MaxStep without the comparison of the maximum with the guaranteed resource
MaxStep_NoGuaranteedCheck(cur, parent) ==
    IF cur.maxResource # Nil /\ parent # Nil /\ parent.maxResource # Nil
       /\ ~FitIn(parent.maxResource, cur.maxResource)
    THEN [kind |-> "MaxParent", queue |-> cur.Name,
          larger |-> parent.maxResource, smaller |-> cur.maxResource]
    ELSE NoErr

\* the maximum part of the check of a node
MaxStep(cur, parent) ==
    IF cur.maxResource # Nil
    THEN IF parent # Nil /\ parent.maxResource # Nil
            /\ ~FitIn(parent.maxResource, cur.maxResource)
         THEN [kind |-> "MaxParent", queue |-> cur.Name,
               larger |-> parent.maxResource, smaller |-> cur.maxResource]
         ELSE IF ~FitIn(cur.maxResource, cur.guaranteedResource)
              THEN [kind |-> "MaxGuaranteed", queue |-> cur.Name,
                    larger |-> cur.maxResource, smaller |-> cur.guaranteedResource]
              ELSE NoErr
    ELSE NoErr

\* checkResourceConfigurationsForQueue(cur, parent): returns the error
\* (NoErr for nil) and the tree as the call leaves it
RECURSIVE checkResourceConfigurationsForQueue(_, _), CheckChildren(_, _)
checkResourceConfigurationsForQueue(cur, parent) ==
    LET kids == CheckChildren(cur, 1)
        own  == GuaranteedStep(kids.q)
    IN  IF kids.err # NoErr THEN kids
        ELSE IF own.err # NoErr THEN own
        ELSE [err |-> MaxStep(own.q, parent), q |-> own.q]

\* the loop over cur.children going on to the later children after an error
\* and returning the first error
CheckChildren_All(cur, i) ==
    IF i > Len(cur.children) THEN [err |-> NoErr, q |-> cur]
    ELSE LET r    == checkResourceConfigurationsForQueue(cur.children[i], cur)
             cur2 == [cur EXCEPT !.children[i] = r.q]
             rest == CheckChildren(cur2, i + 1)
         IN  IF r.err # NoErr THEN [err |-> r.err, q |-> rest.q]
             ELSE rest

\* the loop over cur.children from child i on: stops at the first error
CheckChildren(cur, i) ==
    IF i > Len(cur.children) THEN [err |-> NoErr, q |-> cur]
    ELSE LET r    == checkResourceConfigurationsForQueue(cur.children[i], cur)
             cur2 == [cur EXCEPT !.children[i] = r.q]
         IN  IF r.err # NoErr THEN [err |-> r.err, q |-> cur2]
             ELSE CheckChildren(cur2, i + 1)

-----------------------------------------------------------------------------
(* Queue configurations the check is applied to *)

\* configured resource vectors: memory alone (possibly negative), vcore
\* alone, and both
ResourceSet ==
    {[memory |-> m] : m \in -1..MaxQty}
        \cup {[vcore |-> 1], [memory |-> MaxQty, vcore |-> 1]}

\* a resource setting of a queue: a vector, or absent
OptResource == ResourceSet \cup {Nil}

QueueConf(name, g, m, queues) ==
    [Name |-> name, Guaranteed |-> g, Max |-> m, Queues |-> queues]

LeafConfs(name) == {QueueConf(name, g, m, <<>>) : g \in OptResource, m \in OptResource}

-----------------------------------------------------------------------------
(* Partitions and configurations *)

RMs == {"rm1", "rm2"}
PartitionNames == {"default", "gpu"}
PolicyGroups == {"queues"}

\* clusterInfo.policyGroup
ClusterPolicyGroup == "queues"

\* common.GetNormalizedPartitionName(name, rmID): the configured name
\* combined with the resource manager's identity
GetNormalizedPartitionName(name, rmID) == <<rmID, name>>

\* queue trees of the partitions of the loaded configurations: two that pass
\* the check (the first has its root guaranteed inferred) and one that fails
RootInferred == QueueConf("root", Nil, Nil, <<QueueConf("a", [memory |-> 1], Nil, <<>>)>>)
RootDeclared ==
    QueueConf("root", [memory |-> 2], [memory |-> 2, vcore |-> 1],
              <<QueueConf("a", [memory |-> 1], Nil, <<>>)>>)
RootExceeded == QueueConf("root", [memory |-> 0], Nil, <<QueueConf("a", [memory |-> 1], Nil, <<>>)>>)
PartitionQueues == {RootInferred, RootDeclared, RootExceeded}

\* configs.PartitionConfig
PartitionConfigs == [Name : PartitionNames, Queues : PartitionQueues]

\* configs.SchedulerConfig as the loader returns it: validated, so it has at
\* least one partition and no partition name twice. A configuration of two
\* partitions lists "default" first: the other order is the same up to the
\* renaming of the two partitions.
SchedulerConfigs ==
    UNION {{c \in [1..n -> PartitionConfigs] :
               /\ \A i, j \in 1..n : i # j => c[i].Name # c[j].Name
               /\ n > 1 => c[1].Name = "default"} : n \in 1..MaxConfLen}

\* no configuration (nothing loaded, nothing active)
NoConf == <<>>

\* configs.SchedulerConfigLoader(policyGroup): a validated configuration, or an error
LoaderResults ==
    {[conf |-> c, err |-> NoErr] : c \in SchedulerConfigs}
        \cup {[conf |-> NoConf, err |-> [kind |-> "ConfigLoad"]]}

\* newPartitionInfo(part, rmID, info): a new active partition with the queue
\* tree of the configuration (a validated configuration always builds)
newPartitionInfo(part, rmID) ==
    [Name |-> part.Name, Root |-> NewQueueInfo(part.Queues),
     state |-> "Active", RmID |-> rmID]

\* the result of checkResourceConfigurationsForQueue(partition.Root, nil) on
\* the queue tree built from each configured tree (computed once per tree)
CheckedRoot ==
    [c \in PartitionQueues |-> checkResourceConfigurationsForQueue(NewQueueInfo(c), Nil)]

\* newPartitionInfoInternal(part, rmID, info): the partition, checked; nil
\* and the error when the check of its queues fails
newPartitionInfoInternal(part, rmID) ==
    LET partition == newPartitionInfo(part, rmID)
        r == CheckedRoot[part.Queues]
    IN  IF r.err # NoErr
        THEN [partition |-> Nil, err |-> r.err]
        ELSE [partition |-> [partition EXCEPT !.Root = r.q], err |-> NoErr]

\* clusterInfo.addPartition(name, info): m.partitions[name] = info
addPartition(parts, name, info) ==
    [k \in (DOMAIN parts) \cup {name} |-> IF k = name THEN info ELSE parts[k]]

\* part.updatePartitionDetails(p): the queue tree of the partition is
\* replaced by the validated tree of the new configuration; the state and the
\* other fields stay. It returns no error for settings that passed the check.
updatePartitionDetails(part, p) ==
    [part EXCEPT !.Root = CheckedRoot[p.Queues].q]

\* part.markPartitionForRemoval()
markPartitionForRemoval(part) == [part EXCEPT !.state = "PendingRemoval"]

IsInvalidHierarchy(err) == err.kind \in {"GuaranteedSum", "MaxParent", "MaxGuaranteed"}

-----------------------------------------------------------------------------
(* createPartitionInfos *)

\* the loop over conf.Partitions from entry i on; failIdx is the entry whose
\* partition failed its check (0: none)
RECURSIVE CreateLoop(_, _, _, _, _)
CreateLoop(parts, conf, rmID, i, updatedPartitions) ==
    IF i > Len(conf)
    THEN [partitions |-> parts, updated |-> updatedPartitions, err |-> NoErr, failIdx |-> 0]
    ELSE LET partitionName == GetNormalizedPartitionName(conf[i].Name, rmID)
             p == [conf[i] EXCEPT !.Name = partitionName]
             r == newPartitionInfoInternal(p, rmID)
         IN  IF r.err # NoErr
             THEN [partitions |-> parts, updated |-> <<>>, err |-> r.err, failIdx |-> i]
             ELSE CreateLoop(addPartition(parts, partitionName, r.partition), conf, rmID,
                             i + 1, Append(updatedPartitions, partitionName))

\* createPartitionInfos adding each partition to the cluster before it looks
\* at the error of its creation
RECURSIVE CreateLoop_AddFirst(_, _, _, _, _)
CreateLoop_AddFirst(parts, conf, rmID, i, updatedPartitions) ==
    IF i > Len(conf)
    THEN [partitions |-> parts, updated |-> updatedPartitions, err |-> NoErr, failIdx |-> 0]
    ELSE LET partitionName == GetNormalizedPartitionName(conf[i].Name, rmID)
             p == [conf[i] EXCEPT !.Name = partitionName]
             r == newPartitionInfoInternal(p, rmID)
             added == addPartition(parts, partitionName, r.partition)
         IN  IF r.err # NoErr
             THEN [partitions |-> added, updated |-> <<>>, err |-> r.err, failIdx |-> i]
             ELSE CreateLoop_AddFirst(added, conf, rmID, i + 1,
                                      Append(updatedPartitions, partitionName))

createPartitionInfos_AddFirst(parts, conf, rmID) ==
    CreateLoop_AddFirst(parts, conf, rmID, 1, <<>>)

createPartitionInfos(parts, conf, rmID) == CreateLoop(parts, conf, rmID, 1, <<>>)

-----------------------------------------------------------------------------
(* UpdateClusterInfoFromConfigFile: the walk over the configuration *)

\* UpdateExisting updating the partition of the map before the check of the
\* new settings
UpdateExisting_UpdateFirst(parts, partitionName, p, rmID) ==
    LET r == newPartitionInfoInternal(p, rmID)
    IN  IF parts[partitionName] = Nil
        THEN [partitions |-> parts, err |-> [kind |-> "panic"], panic |-> TRUE]
        ELSE [partitions |-> [parts EXCEPT ![partitionName].Root =
                                  NewQueueInfo(p.Queues)],
              err |-> r.err, panic |-> FALSE]

\* the branch of a partition found in the map: the new settings are checked
\* on a private partition, then the partition of the map is updated in
\* place. panic: the update was called on a nil map entry.
UpdateExisting(parts, partitionName, p, rmID) ==
    LET r == newPartitionInfoInternal(p, rmID)
    IN  IF r.err # NoErr
        THEN [partitions |-> parts, err |-> r.err, panic |-> FALSE]
        ELSE IF parts[partitionName] = Nil
        THEN [partitions |-> parts, err |-> [kind |-> "panic"], panic |-> TRUE]
        ELSE [partitions |-> [parts EXCEPT ![partitionName] =
                                  updatePartitionDetails(parts[partitionName], p)],
              err |-> NoErr, panic |-> FALSE]

\* the branch of a partition not found in the map: the partition is created
\* and added, and the error of the creation is looked at after the add
AddNew(parts, partitionName, p, rmID) ==
    LET r == newPartitionInfoInternal(p, rmID)
    IN  [partitions |-> addPartition(parts, partitionName, r.partition),
         err |-> r.err, panic |-> FALSE]

\* the loop over conf.Partitions from entry i on; failIdx is the entry at
\* which the walk ended (0: it went through)
RECURSIVE UpdateLoop(_, _, _, _, _, _)
UpdateLoop(parts, conf, rmID, i, updatedPartitions, visited) ==
    IF i > Len(conf)
    THEN [partitions |-> parts, updated |-> updatedPartitions, visited |-> visited,
          err |-> NoErr, failIdx |-> 0, panic |-> FALSE]
    ELSE LET partitionName == GetNormalizedPartitionName(conf[i].Name, rmID)
             p == [conf[i] EXCEPT !.Name = partitionName]
             r == IF partitionName \in DOMAIN parts
                  THEN UpdateExisting(parts, partitionName, p, rmID)
                  ELSE AddNew(parts, partitionName, p, rmID)
         IN  IF r.err # NoErr
             THEN [partitions |-> r.partitions, updated |-> <<>>, visited |-> visited,
                   err |-> r.err, failIdx |-> i, panic |-> r.panic]
             ELSE UpdateLoop(r.partitions, conf, rmID, i + 1,
                             Append(updatedPartitions, partitionName),
                             visited \cup {partitionName})

\* RemovedPartitions leaving out the partitions already marked for removal
RemovedPartitions_NotYetMarked(parts, visited) ==
    {k \in DOMAIN parts : parts[k].Name \notin visited /\ parts[k].state = "Active"}

\* RemovedPartitions taking every partition of the map
RemovedPartitions_All(parts, visited) == DOMAIN parts

\* the partitions of the map that the walk did not visit
RemovedPartitions(parts, visited) ==
    {k \in DOMAIN parts : parts[k].Name \notin visited}

\* MarkRemoved deleting the partitions of removed from the map
MarkRemoved_Erase(parts, removed) == [k \in (DOMAIN parts) \ removed |-> parts[k]]

\* part.markPartitionForRemoval() on each partition of removed
MarkRemoved(parts, removed) ==
    [k \in DOMAIN parts |->
        IF k \in removed THEN markPartitionForRemoval(parts[k]) ELSE parts[k]]

\* the orders in which a range over a map can deliver the keys of S
Orders(S) ==
    {o \in [1..Cardinality(S) -> S] :
        \A i, j \in 1..Cardinality(S) : i # j => o[i] # o[j]}

-----------------------------------------------------------------------------
(* The calls *)

\* the test for registered partitions, never finding one
HasPartitions_Never(parts) == FALSE

\* len(clusterInfo.partitions) > 0
HasPartitions(parts) == Cardinality(DOMAIN parts) > 0

\* len(clusterInfo.partitions) == 0
NoPartitions(parts) == Cardinality(DOMAIN parts) = 0

Returned(op, rmID, load, conf, updated, deleted, err, failIdx, repeat) ==
    [op |-> op, rmID |-> rmID, load |-> load, conf |-> conf, updated |-> updated,
     deleted |-> deleted, err |-> err, failIdx |-> failIdx, repeat |-> repeat]

SetClusterInfoFromConfigFile(rmID, policyGroup) ==
    /\ ~crashed
    /\ UNCHANGED <<crashed, vq, vres, heap, call, reader>>
    /\ IF HasPartitions(partitions)
       THEN /\ last' = Returned("Set", rmID, "skipped", NoConf, <<>>, <<>>,
                                [kind |-> "StateConflict"], 0, FALSE)
            /\ UNCHANGED <<partitions, configContext>>
       ELSE \E loaded \in LoaderResults :
               IF loaded.err # NoErr
               THEN /\ last' = Returned("Set", rmID, "error", NoConf, <<>>, <<>>,
                                        loaded.err, 0, FALSE)
                    /\ UNCHANGED <<partitions, configContext>>
               ELSE \E r \in {createPartitionInfos(partitions, loaded.conf, rmID)} :
                        /\ configContext' = [configContext EXCEPT ![policyGroup] = loaded.conf]
                        /\ partitions' = r.partitions
                        /\ last' = Returned("Set", rmID, "ok", loaded.conf,
                                            IF r.err # NoErr THEN <<>> ELSE r.updated,
                                            <<>>, r.err, r.failIdx, FALSE)

UpdateClusterInfoFromConfigFile(rmID) ==
    /\ ~crashed
    /\ UNCHANGED <<vq, vres, heap, call, reader>>
    /\ IF NoPartitions(partitions)
       THEN /\ last' = Returned("Update", rmID, "skipped", NoConf, <<>>, <<>>,
                                [kind |-> "StateConflict"], 0, FALSE)
            /\ UNCHANGED <<partitions, configContext, crashed>>
       ELSE \E loaded \in LoaderResults :
               IF loaded.err # NoErr
               THEN /\ last' = Returned("Update", rmID, "error", NoConf, <<>>, <<>>,
                                        loaded.err, 0, FALSE)
                    /\ UNCHANGED <<partitions, configContext, crashed>>
               ELSE \E r \in {UpdateLoop(partitions, loaded.conf, rmID, 1, <<>>, {})} :
                    \E repeat \in {last.op = "Update" /\ last.load = "ok"
                                   /\ last.rmID = rmID /\ last.conf = loaded.conf} :
                    \E nils \in {{k \in DOMAIN r.partitions : r.partitions[k] = Nil}} :
                        /\ configContext' =
                               [configContext EXCEPT ![ClusterPolicyGroup] = loaded.conf]
                        /\ IF r.err # NoErr
                           THEN \* return inside the walk, or panic in it
                                /\ partitions' = r.partitions
                                /\ crashed' = r.panic
                                /\ last' = Returned("Update", rmID, "ok", loaded.conf,
                                                    <<>>, <<>>, r.err, r.failIdx, repeat)
                           ELSE IF nils # {}
                           THEN \* part.Name of a nil entry: panic, after any of the
                                \* other partitions were marked
                                \E marked \in SUBSET RemovedPartitions(
                                        [k \in (DOMAIN r.partitions) \ nils |-> r.partitions[k]],
                                        r.visited) :
                                    /\ partitions' = MarkRemoved(r.partitions, marked)
                                    /\ crashed' = TRUE
                                    /\ last' = Returned("Update", rmID, "ok", loaded.conf,
                                                        <<>>, <<>>, [kind |-> "panic"], 0, repeat)
                           ELSE \E removed \in {RemovedPartitions(r.partitions, r.visited)} :
                                \E deletedPartitions \in Orders(removed) :
                                    /\ partitions' = MarkRemoved(r.partitions, removed)
                                    /\ crashed' = FALSE
                                    /\ last' = Returned("Update", rmID, "ok", loaded.conf,
                                                        r.updated, deletedPartitions,
                                                        NoErr, 0, repeat)

-----------------------------------------------------------------------------
(* The calls step by step, next to a reader of the partition map.          *)
(* Queue trees are objects: heap[id] is the tree with identity id, and the *)
(* Root of a partition of the map is such an id. One call runs at a time.  *)

\* no call in progress, n calls have returned
CallIdle(n) ==
    [pc |-> "idle", op |-> "none", rmID |-> "", conf |-> NoConf, i |-> 0,
     cand |-> 0, err |-> NoErr, visited |-> {}, n |-> n]

\* a call at the first entry of the configuration it loaded
CallAt(op, rmID, conf, n) ==
    [pc |-> "new", op |-> op, rmID |-> rmID, conf |-> conf, i |-> 1,
     cand |-> 0, err |-> NoErr, visited |-> {}, n |-> n]

\* partitionName and p of the loop body for the entry the call is at
CallKey == GetNormalizedPartitionName(call.conf[call.i].Name, call.rmID)

CallEntry == [call.conf[call.i] EXCEPT !.Name = CallKey]

\* the partition around the queue tree with identity id
PartitionOf(id) ==
    [Name |-> CallKey, Root |-> id, state |-> "Active", RmID |-> call.rmID]

\* the loop goes on to the next entry, or ends
NextEntry ==
    IF call.i < Len(call.conf)
    THEN [call EXCEPT !.pc = "new", !.i = call.i + 1, !.cand = 0,
                      !.visited = call.visited \cup {CallKey}]
    ELSE IF call.op = "Set" THEN CallIdle(call.n + 1)
    ELSE [call EXCEPT !.pc = "marks", !.cand = 0,
                      !.visited = call.visited \cup {CallKey}]

\* SetClusterInfoFromConfigFile up to the loop of createPartitionInfos
SetStart(rmID, policyGroup) ==
    /\ ~crashed
    /\ call.pc = "idle"
    /\ call.n < MaxCalls
    /\ UNCHANGED <<partitions, last, crashed, vq, vres, heap, reader>>
    /\ IF HasPartitions(partitions)
       THEN call' = CallIdle(call.n + 1) /\ UNCHANGED configContext
       ELSE \E loaded \in LoaderResults :
               IF loaded.err # NoErr
               THEN call' = CallIdle(call.n + 1) /\ UNCHANGED configContext
               ELSE /\ configContext' = [configContext EXCEPT ![policyGroup] = loaded.conf]
                    /\ call' = CallAt("Set", rmID, loaded.conf, call.n)

\* UpdateClusterInfoFromConfigFile up to the loop over the configuration
UpdateStart(rmID) ==
    /\ ~crashed
    /\ call.pc = "idle"
    /\ call.n < MaxCalls
    /\ UNCHANGED <<partitions, last, crashed, vq, vres, heap, reader>>
    /\ IF NoPartitions(partitions)
       THEN call' = CallIdle(call.n + 1) /\ UNCHANGED configContext
       ELSE \E loaded \in LoaderResults :
               IF loaded.err # NoErr
               THEN call' = CallIdle(call.n + 1) /\ UNCHANGED configContext
               ELSE /\ configContext' =
                           [configContext EXCEPT ![ClusterPolicyGroup] = loaded.conf]
                    /\ call' = CallAt("Update", rmID, loaded.conf, call.n)

\* NewPartition adding the partition to the map as soon as it is built
NewPartition_AddFirst ==
    /\ call.pc = "new"
    /\ heap' = Append(heap, NewQueueInfo(CallEntry.Queues))
    /\ partitions' = addPartition(partitions, CallKey, PartitionOf(Len(heap) + 1))
    /\ call' = [call EXCEPT !.pc = "check", !.cand = Len(heap) + 1]
    /\ UNCHANGED <<configContext, last, crashed, vq, vres, reader>>

\* newPartitionInfo in newPartitionInfoInternal: a new queue tree, held by
\* the call alone
NewPartition ==
    /\ call.pc = "new"
    /\ heap' = Append(heap, NewQueueInfo(CallEntry.Queues))
    /\ call' = [call EXCEPT !.pc = "check", !.cand = Len(heap) + 1]
    /\ UNCHANGED <<partitions, configContext, last, crashed, vq, vres, reader>>

\* checkResourceConfigurationsForQueue(partition.Root, nil), first half: the
\* children of the root are checked, guaranteed resources written into them
ValidateChildren ==
    /\ call.pc = "check"
    /\ \E r \in {CheckChildren(heap[call.cand], 1)} :
          /\ heap' = [heap EXCEPT ![call.cand] = r.q]
          /\ call' = [call EXCEPT !.pc = IF r.err # NoErr THEN "checked" ELSE "own",
                                  !.err = r.err]
    /\ UNCHANGED <<partitions, configContext, last, crashed, vq, vres, reader>>

\* second half: the checks of the root itself
ValidateOwn ==
    /\ call.pc = "own"
    /\ \E own \in {GuaranteedStep(heap[call.cand])} :
          /\ heap' = [heap EXCEPT ![call.cand] = own.q]
          /\ call' = [call EXCEPT !.pc = "checked",
                                  !.err = IF own.err # NoErr THEN own.err
                                          ELSE MaxStep(own.q, Nil)]
    /\ UNCHANGED <<partitions, configContext, last, crashed, vq, vres, reader>>

\* createPartitionInfos after newPartitionInfoInternal: return on an error,
\* else addPartition
SetPublish ==
    /\ call.pc = "checked"
    /\ call.op = "Set"
    /\ IF call.err # NoErr
       THEN call' = CallIdle(call.n + 1) /\ UNCHANGED partitions
       ELSE /\ partitions' = addPartition(partitions, CallKey, PartitionOf(call.cand))
            /\ call' = NextEntry
    /\ UNCHANGED <<configContext, last, crashed, vq, vres, heap, reader>>

\* the loop body of UpdateClusterInfoFromConfigFile after
\* newPartitionInfoInternal. Partition in the map: return on an error, else
\* updatePartitionDetails sets a new validated tree as its root (panic on a
\* nil entry). Partition not in the map: addPartition, then return on an error.
UpdatePublish ==
    /\ call.pc = "checked"
    /\ call.op = "Update"
    /\ UNCHANGED <<configContext, last, vq, vres, reader>>
    /\ IF CallKey \in DOMAIN partitions
       THEN IF call.err # NoErr
            THEN /\ call' = CallIdle(call.n + 1)
                 /\ UNCHANGED <<partitions, heap, crashed>>
            ELSE IF partitions[CallKey] = Nil
            THEN /\ call' = CallIdle(call.n + 1)
                 /\ crashed' = TRUE
                 /\ UNCHANGED <<partitions, heap>>
            ELSE /\ heap' = Append(heap, CheckedRoot[CallEntry.Queues].q)
                 /\ partitions' = [partitions EXCEPT ![CallKey].Root = Len(heap) + 1]
                 /\ call' = NextEntry
                 /\ UNCHANGED crashed
       ELSE /\ partitions' = addPartition(partitions, CallKey,
                                 IF call.err # NoErr THEN Nil ELSE PartitionOf(call.cand))
            /\ call' = IF call.err # NoErr THEN CallIdle(call.n + 1) ELSE NextEntry
            /\ UNCHANGED <<heap, crashed>>

\* the loop over the map that marks the partitions not visited (panic at a
\* nil entry, after any of the others were marked)
MarkRemovals ==
    /\ call.pc = "marks"
    /\ call' = CallIdle(call.n + 1)
    /\ UNCHANGED <<configContext, last, vq, vres, heap, reader>>
    /\ \E nils \in {{k \in DOMAIN partitions : partitions[k] = Nil}} :
          IF nils # {}
          THEN \E marked \in SUBSET RemovedPartitions(
                      [k \in (DOMAIN partitions) \ nils |-> partitions[k]], call.visited) :
                  /\ partitions' = MarkRemoved(partitions, marked)
                  /\ crashed' = TRUE
          ELSE /\ partitions' = MarkRemoved(partitions,
                                    RemovedPartitions(partitions, call.visited))
               /\ UNCHANGED crashed

\* a reader takes the queue tree of a partition of the map
ReaderGet(k) ==
    /\ ~crashed
    /\ k \in DOMAIN partitions
    /\ partitions[k] # Nil
    /\ reader' = [reader EXCEPT !.held = partitions[k].Root]
    /\ UNCHANGED <<partitions, configContext, last, crashed, vq, vres, heap, call>>

\* the reader reads the tree it holds
ReaderRead ==
    /\ ~crashed
    /\ reader.held # 0
    /\ reader' = [reader EXCEPT !.observed = heap[reader.held]]
    /\ UNCHANGED <<partitions, configContext, last, crashed, vq, vres, heap, call>>

\* checkResourceConfigurationsForQueue(root, nil) on the tree vq
CheckQueue ==
    /\ vres = Nil
    /\ vres' = checkResourceConfigurationsForQueue(vq, Nil)
    /\ UNCHANGED <<partitions, configContext, last, crashed, vq, heap, call, reader>>

-----------------------------------------------------------------------------
(* Specifications *)

\* the cluster info after construction: no partition, no active configuration
InitCluster ==
    /\ partitions = <<>>
    /\ configContext = [g \in PolicyGroups |-> NoConf]
    /\ last = Returned("none", "", "skipped", NoConf, <<>>, <<>>, NoErr, 0, FALSE)
    /\ crashed = FALSE
    /\ heap = <<>>
    /\ call = CallIdle(0)
    /\ reader = [held |-> 0, observed |-> Nil]

Init ==
    /\ InitCluster
    /\ vq = Nil
    /\ vres = Nil

Next ==
    \/ \E rmID \in RMs, policyGroup \in PolicyGroups :
          SetClusterInfoFromConfigFile(rmID, policyGroup)
    \/ \E rmID \in RMs : UpdateClusterInfoFromConfigFile(rmID)

Spec == Init /\ [][Next]_vars

\* the queue trees of the bounded set: a single root, a root with one or two
\* leaves, and a chain of three queues
InitV ==
    /\ InitCluster
    /\ vres = Nil
    /\ \/ \E root \in LeafConfs("root") : vq = NewQueueInfo(root)
       \/ \E g \in OptResource, m \in OptResource, a \in LeafConfs("a") :
             vq = NewQueueInfo(QueueConf("root", g, m, <<a>>))
       \/ \E g \in OptResource, m \in OptResource, a \in LeafConfs("a"), b \in LeafConfs("b") :
             vq = NewQueueInfo(QueueConf("root", g, m, <<a, b>>))
       \/ \E g \in OptResource, m \in OptResource, ag \in OptResource, am \in OptResource,
             b \in LeafConfs("b") :
             vq = NewQueueInfo(QueueConf("root", g, m, <<QueueConf("a", ag, am, <<b>>)>>))

NextV == CheckQueue

SpecV == InitV /\ [][NextV]_vars

NextC ==
    \/ \E rmID \in RMs, policyGroup \in PolicyGroups : SetStart(rmID, policyGroup)
    \/ \E rmID \in RMs : UpdateStart(rmID)
    \/ NewPartition
    \/ ValidateChildren
    \/ ValidateOwn
    \/ SetPublish
    \/ UpdatePublish
    \/ MarkRemovals
    \/ \E rmID \in RMs, name \in PartitionNames :
          ReaderGet(GetNormalizedPartitionName(name, rmID))
    \/ ReaderRead

SpecC == Init /\ [][NextC]_vars

-----------------------------------------------------------------------------
(* Notions the properties are stated in *)

\* the map key of entry i of configuration conf for resource manager rmID
Key(conf, i, rmID) == GetNormalizedPartitionName(conf[i].Name, rmID)

\* the map keys of all entries of conf
ConfKeys(conf, rmID) == {Key(conf, i, rmID) : i \in 1..Len(conf)}

\* the elements of a list
Range(seq) == {seq[i] : i \in 1..Len(seq)}

\* b <= c on every dimension, an absent dimension counting as zero
Within(b, c) == \A d \in Dims : Quantity(b, d) <= Quantity(c, d)

\* the quantity of dimension d summed over the guaranteed resources of the
\* first n children
RECURSIVE ChildrenQuantity(_, _, _)
ChildrenQuantity(children, n, d) ==
    IF n = 0 THEN 0
    ELSE ChildrenQuantity(children, n - 1, d) + Quantity(children[n].guaranteedResource, d)

\* all queues of a tree
RECURSIVE Queues(_)
Queues(q) == {q} \cup UNION {Queues(q.children[i]) : i \in 1..Len(q.children)}

\* all <<parent, child>> pairs of a tree
RECURSIVE Edges(_)
Edges(q) ==
    {<<q, q.children[i]>> : i \in 1..Len(q.children)}
        \cup UNION {Edges(q.children[i]) : i \in 1..Len(q.children)}

\* the check has run on vq and returned nil
Validated == vres # Nil /\ vres.err = NoErr

\* the partition a successful creation from entry i of conf leaves in the map
Created(conf, i, rmID) ==
    [Name |-> Key(conf, i, rmID), Root |-> CheckedRoot[conf[i].Queues].q,
     state |-> "Active", RmID |-> rmID]

\* some entry of conf has a queue tree that fails the check
CheckedRoot_SomeFails(conf) ==
    \E i \in 1..Len(conf) : CheckedRoot[conf[i].Queues].err # NoErr

\* the first entry of conf whose queue tree fails the check
FirstFailing(conf) ==
    CHOOSE i \in 1..Len(conf) :
        /\ CheckedRoot[conf[i].Queues].err # NoErr
        /\ \A j \in 1..(i - 1) : CheckedRoot[conf[j].Queues].err = NoErr

-----------------------------------------------------------------------------
(* C1 *)

\* C1: every key of the partition map refers to a constructed partition (not
\* nil) whose queue tree passes the check, after any sequence of calls.
C1_OnlyValidatedPartitions ==
    \A k \in DOMAIN partitions :
        /\ partitions[k] # Nil
        /\ checkResourceConfigurationsForQueue(partitions[k].Root, Nil).err = NoErr

-----------------------------------------------------------------------------
(* C2 *)

\* C2: SetClusterInfoFromConfigFile on a cluster that holds a partition fails
\* with the state conflict error, returns an empty list, does not consult
\* the loader, records no configuration and leaves the map unchanged.
C2_SetOnRegisteredFails ==
    [][(last'.op = "Set" /\ DOMAIN partitions # {})
          => /\ last'.err = [kind |-> "StateConflict"]
             /\ last'.updated = <<>>
             /\ last'.load = "skipped"
             /\ partitions' = partitions
             /\ configContext' = configContext]_vars

\* a Set call was refused on a cluster that holds a partition
C2_Witness ==
    /\ last.op = "Set"
    /\ last.err = [kind |-> "StateConflict"]
    /\ \E k \in DOMAIN partitions : partitions[k] # Nil

-----------------------------------------------------------------------------
(* C3 *)

\* C3: UpdateClusterInfoFromConfigFile for resource manager R fails with the
\* state conflict error and changes nothing whenever the map holds no
\* partition of R, also when it holds partitions of another resource manager.
C3_UpdateNeedsOwnPartition ==
    [][(last'.op = "Update"
          /\ \A k \in DOMAIN partitions :
                partitions[k] = Nil \/ partitions[k].RmID # last'.rmID)
          => /\ last'.err = [kind |-> "StateConflict"]
             /\ partitions' = partitions]_vars

-----------------------------------------------------------------------------
(* C4 *)

\* the partitions of the map before the step that the configuration of the
\* step does not name are in the map after it, marked for removal
AbsentAreMarked ==
    \A k \in DOMAIN partitions :
        (partitions[k] # Nil /\ k \notin ConfKeys(last'.conf, last'.rmID))
            => /\ k \in DOMAIN partitions'
               /\ partitions'[k] # Nil
               /\ partitions'[k].state = "PendingRemoval"

\* C4 as stated: every Update call that loaded a configuration marks the
\* partitions absent from it for removal and keeps them in the map, and no
\* call removes a key from the map.
C4_EveryUpdateMarksAbsent ==
    [][/\ DOMAIN partitions \subseteq DOMAIN partitions'
       /\ (last'.op = "Update" /\ last'.load = "ok") => AbsentAreMarked]_vars

\* C4 amended: every Update call that returns without error marks the
\* partitions absent from its configuration for removal and keeps them in
\* the map under the same key, and no call removes a key from the map.
C4_RemovalIsSoft ==
    [][/\ DOMAIN partitions \subseteq DOMAIN partitions'
       /\ (last'.op = "Update" /\ last'.load = "ok" /\ last'.err = NoErr)
             => AbsentAreMarked]_vars

\* an Update call returned without error and marked a partition for removal
C4_Witness ==
    /\ last.op = "Update"
    /\ last.err = NoErr
    /\ last.deleted # <<>>
    /\ \A i \in 1..Len(last.deleted) :
          /\ last.deleted[i] \in DOMAIN partitions
          /\ partitions[last.deleted[i]].state = "PendingRemoval"

-----------------------------------------------------------------------------
(* C5 *)

\* C5 as stated: an Update call with the resource manager and configuration
\* of the Update call right before it returns an empty list of removed
\* partitions and leaves every partition as it was.
C5_ReapplyReturnsNoRemovals ==
    [][(last'.op = "Update" /\ last'.repeat)
          => /\ last'.deleted = <<>>
             /\ partitions' = partitions]_vars

\* C5 amended: an Update call with the resource manager and configuration
\* of the Update call right before it returns the same outcome as that
\* call: the same error, the same updated partitions and, as a set, the same
\* removed partitions (after a success all partitions of the map that the
\* configuration does not name), and it leaves every partition as it was.
C5_ReapplyReturnsSame ==
    [][(last'.op = "Update" /\ last'.repeat)
          => /\ last'.err = last.err
             /\ last'.updated = last.updated
             /\ Range(last'.deleted) = Range(last.deleted)
             /\ (last'.err = NoErr =>
                    Range(last'.deleted) =
                        (DOMAIN partitions') \ ConfKeys(last'.conf, last'.rmID))
             /\ partitions' = partitions]_vars

\* an Update call was repeated and returned removed partitions again
C5_Witness ==
    /\ last.op = "Update"
    /\ last.repeat
    /\ last.err = NoErr
    /\ last.deleted # <<>>

-----------------------------------------------------------------------------
(* C6 *)

\* C6: when the check fails for entry N of an Update call and that entry
\* names a key of the map, the call returns the error with empty lists, the
\* entries before N are in the map as created or as updated from their
\* entry, the map entry of N and every other key are as before the call
\* (the entries after N are not processed), and no state is changed.
C6_UpdateNotTransactional ==
    [][(/\ last'.op = "Update"
        /\ IsInvalidHierarchy(last'.err)
        /\ Key(last'.conf, last'.failIdx, last'.rmID) \in DOMAIN partitions)
          => LET conf == last'.conf
                 rm   == last'.rmID
                 N    == last'.failIdx
                 done == {Key(conf, i, rm) : i \in 1..(N - 1)}
             IN  /\ CheckedRoot[conf[N].Queues].err = last'.err
                 /\ last'.updated = <<>> /\ last'.deleted = <<>>
                 /\ ~crashed'
                 /\ \A i \in 1..(N - 1) :
                       LET k == Key(conf, i, rm)
                       IN  /\ k \in DOMAIN partitions'
                           /\ IF k \in DOMAIN partitions
                              THEN partitions'[k] =
                                       [partitions[k] EXCEPT
                                           !.Root = CheckedRoot[conf[i].Queues].q]
                              ELSE partitions'[k] = Created(conf, i, rm)
                 /\ DOMAIN partitions' = (DOMAIN partitions) \cup done
                 /\ \A k \in (DOMAIN partitions) \ done : partitions'[k] = partitions[k]
                 /\ \A k \in DOMAIN partitions :
                       partitions[k] # Nil => partitions'[k].state = partitions[k].state]_vars

\* an Update call failed the check at its second entry, which names a
\* partition of the map, after its first entry was applied
C6_Witness ==
    /\ last.op = "Update"
    /\ IsInvalidHierarchy(last.err)
    /\ last.failIdx = 2
    /\ Key(last.conf, 2, last.rmID) \in DOMAIN partitions
    /\ partitions[Key(last.conf, 2, last.rmID)] # Nil
    /\ partitions[Key(last.conf, 2, last.rmID)].Root
           # CheckedRoot[last.conf[2].Queues].q
    /\ partitions[Key(last.conf, 1, last.rmID)] = Created(last.conf, 1, last.rmID)

-----------------------------------------------------------------------------
(* C7 *)

\* C7: a call that returns a check error after it committed partitions
\* returns, with the error, the list of exactly the committed partitions.
C7_ErrorReturnsCommitted ==
    (IsInvalidHierarchy(last.err) /\ last.failIdx > 1)
        => last.updated = [i \in 1..(last.failIdx - 1) |-> Key(last.conf, i, last.rmID)]

-----------------------------------------------------------------------------
(* C8 *)

\* C8: when the check fails for entry N of a Set call, the call returns the
\* error, the partitions of the entries before N are in the map as created,
\* and the partitions of entry N and of the later entries are not in the map.
C8_SetPartialCommit ==
    (last.op = "Set" /\ last.load = "ok" /\ CheckedRoot_SomeFails(last.conf))
        => LET conf == last.conf
               rm   == last.rmID
               N    == FirstFailing(conf)
           IN  /\ last.err = CheckedRoot[conf[N].Queues].err
               /\ last.failIdx = N
               /\ \A i \in 1..(N - 1) :
                     /\ Key(conf, i, rm) \in DOMAIN partitions
                     /\ partitions[Key(conf, i, rm)] = Created(conf, i, rm)
               /\ \A i \in N..Len(conf) : Key(conf, i, rm) \notin DOMAIN partitions

\* a Set call failed at its second entry and left the first partition
C8_Witness ==
    /\ last.op = "Set"
    /\ IsInvalidHierarchy(last.err)
    /\ last.failIdx = 2
    /\ DOMAIN partitions = {Key(last.conf, 1, last.rmID)}

-----------------------------------------------------------------------------
(* C9 *)

\* C9: in a tree on which the check returned nil, every queue with children
\* has, on every dimension, the sum of the guaranteed quantities of its
\* children at most its own guaranteed quantity.
C9_GuaranteeSum ==
    Validated =>
        \A q \in Queues(vres.q) :
            Len(q.children) > 0 =>
                \A d \in Dims :
                    ChildrenQuantity(q.children, Len(q.children), d)
                        <= Quantity(q.guaranteedResource, d)

\* the check passed a root with a declared guaranteed resource and two
\* children whose guaranteed resources add up to more than either of them
C9_Witness ==
    /\ Validated
    /\ vq.guaranteedResource # Nil
    /\ Len(vq.children) = 2
    /\ \E d \in Dims :
          /\ Quantity(vres.q.children[1].guaranteedResource, d) > 0
          /\ Quantity(vres.q.children[2].guaranteedResource, d) > 0

-----------------------------------------------------------------------------
(* C10 *)

\* C10: in a tree on which the check returned nil, a queue with a maximum
\* whose parent has a maximum has its maximum within the parent's, and a
\* queue with a maximum has its guaranteed resource within its maximum; a
\* queue without a maximum is never the queue a maximum error names.
C10_MaxContainment ==
    /\ Validated =>
          /\ \A e \in Edges(vres.q) :
                (e[1].maxResource # Nil /\ e[2].maxResource # Nil)
                    => Within(e[2].maxResource, e[1].maxResource)
          /\ \A q \in Queues(vres.q) :
                q.maxResource # Nil => Within(q.guaranteedResource, q.maxResource)
    /\ (vres # Nil /\ vres.err.kind \in {"MaxParent", "MaxGuaranteed"})
          => \A q \in Queues(vq) : q.Name = vres.err.queue => q.maxResource # Nil

\* the check passed a tree in which a parent and its child have a maximum,
\* the child a non-zero one with a non-zero guaranteed resource, and
\* another queue has no maximum
C10_Witness ==
    /\ Validated
    /\ \E e \in Edges(vres.q) :
          /\ e[1].maxResource # Nil
          /\ e[2].maxResource # Nil
          /\ e[2].maxResource # e[1].maxResource
          /\ \E d \in Dims : Quantity(e[2].guaranteedResource, d) > 0
    /\ \E q \in Queues(vres.q) :
          /\ q.maxResource = Nil
          /\ \E d \in Dims : Quantity(q.guaranteedResource, d) > 0

-----------------------------------------------------------------------------
(* Notions of the properties of the check *)

\* the <<queue before the check, queue after the check>> pairs of two trees
\* of the same shape
RECURSIVE Pairs(_, _)
Pairs(before, after) ==
    {<<before, after>>}
        \cup UNION {Pairs(before.children[i], after.children[i]) :
                       i \in 1..Len(before.children)}

\* the guaranteed quantity of dimension d of a configured queue with the
\* guarantees inferred bottom-up: the declared one, or the sum over the children
RECURSIVE EffectiveQuantity(_, _), EffectiveSum(_, _, _)
EffectiveQuantity(q, d) ==
    IF q.guaranteedResource # Nil THEN Quantity(q.guaranteedResource, d)
    ELSE EffectiveSum(q.children, Len(q.children), d)

EffectiveSum(children, n, d) ==
    IF n = 0 THEN 0
    ELSE EffectiveSum(children, n - 1, d) + EffectiveQuantity(children[n], d)

\* (i) the declared guarantee of q is below the sum of its children
ExceedsDeclared(q) ==
    /\ Len(q.children) > 0
    /\ q.guaranteedResource # Nil
    /\ \E d \in Dims :
          EffectiveSum(q.children, Len(q.children), d) > Quantity(q.guaranteedResource, d)

\* (ii) the maximum of q is above the maximum of its parent
ExceedsParentMax(parent, q) ==
    /\ q.maxResource # Nil
    /\ parent.maxResource # Nil
    /\ \E d \in Dims : Quantity(q.maxResource, d) > Quantity(parent.maxResource, d)

\* (iii) the guarantee of q is above its maximum
ExceedsOwnMax(q) ==
    /\ q.maxResource # Nil
    /\ \E d \in Dims : EffectiveQuantity(q, d) > Quantity(q.maxResource, d)

\* some queue of the tree violates (i), (ii) or (iii)
SomeViolation(root) ==
    \/ \E q \in Queues(root) : ExceedsDeclared(q) \/ ExceedsOwnMax(q)
    \/ \E e \in Edges(root) : ExceedsParentMax(e[1], e[2])

-----------------------------------------------------------------------------
(* C11 *)

\* C11: after a check that returned nil every queue has a guaranteed
\* resource: the declared one unchanged, all zero for a leaf that declares
\* none, the sum of the guaranteed resources of its children for a queue
\* with children that declares none.
C11_GuaranteeInference ==
    Validated =>
        \A pr \in Pairs(vq, vres.q) :
            LET before == pr[1]
                after  == pr[2]
            IN  /\ after.guaranteedResource # Nil
                /\ before.guaranteedResource # Nil
                      => after.guaranteedResource = before.guaranteedResource
                /\ (before.guaranteedResource = Nil /\ Len(before.children) = 0)
                      => \A d \in Dims : Quantity(after.guaranteedResource, d) = 0
                /\ (before.guaranteedResource = Nil /\ Len(before.children) > 0)
                      => \A d \in Dims :
                            Quantity(after.guaranteedResource, d) =
                                ChildrenQuantity(after.children, Len(after.children), d)

\* the check passed a root without a declared guarantee over two children,
\* whose guarantees 2 and 1 add up to its inferred guarantee 3
C11_Witness ==
    /\ Validated
    /\ vq.guaranteedResource = Nil
    /\ Len(vq.children) = 2
    /\ Quantity(vres.q.children[1].guaranteedResource, "memory") = 2
    /\ Quantity(vres.q.children[2].guaranteedResource, "memory") = 1
    /\ Quantity(vres.q.guaranteedResource, "memory") = 3

\* the check passed a root with a declared guarantee above the sum of its
\* children, one of them a leaf that declares none
C11_WitnessDeclared ==
    /\ Validated
    /\ vq.guaranteedResource = [memory |-> 2]
    /\ Len(vq.children) = 2
    /\ vq.children[1].guaranteedResource = [memory |-> 1]
    /\ vq.children[2].guaranteedResource = Nil

-----------------------------------------------------------------------------
(* C12 *)

\* C12: the check returns an error exactly when, with the guarantees
\* inferred bottom-up, some queue has a declared guarantee below the sum of
\* its children, a maximum above its parent's maximum, or a guarantee above
\* its maximum; an error of the first kind names such a queue, its declared
\* guarantee and the sum of its children.
C12_ValidatorDecision ==
    vres # Nil =>
        /\ (vres.err # NoErr) <=> SomeViolation(vq)
        /\ vres.err # NoErr => IsInvalidHierarchy(vres.err)
        /\ vres.err.kind = "GuaranteedSum" =>
              \E q \in Queues(vq) :
                  /\ q.Name = vres.err.queue
                  /\ ExceedsDeclared(q)
                  /\ vres.err.larger = q.guaranteedResource
                  /\ \A d \in Dims :
                        Quantity(vres.err.smaller, d) =
                            EffectiveSum(q.children, Len(q.children), d)

\* the check refused a root that declares 2 over children that declare 1
\* and 2, naming root, 2 and the sum 3
C12_Witness ==
    /\ vres # Nil
    /\ vq.guaranteedResource = [memory |-> 2]
    /\ Len(vq.children) = 2
    /\ vq.children[1].guaranteedResource = [memory |-> 1]
    /\ vq.children[2].guaranteedResource = [memory |-> 2]
    /\ vres.err = [kind |-> "GuaranteedSum", queue |-> "root",
                   larger |-> [memory |-> 2], smaller |-> [memory |-> 3]]

-----------------------------------------------------------------------------
(* C13 *)

\* all <<ancestor, descendant>> pairs of a tree
RECURSIVE AncestorPairs(_)
AncestorPairs(q) ==
    UNION {{<<q, n>> : n \in Queues(q.children[i])} \cup AncestorPairs(q.children[i]) :
              i \in 1..Len(q.children)}

\* C13: in a tree on which the check returned nil, a queue with a maximum
\* has it within the maximum of every ancestor that has one, also when the
\* queues between the two have none.
C13_CeilingOverDescendants ==
    Validated =>
        \A pr \in AncestorPairs(vres.q) :
            (pr[1].maxResource # Nil /\ pr[2].maxResource # Nil)
                => Within(pr[2].maxResource, pr[1].maxResource)

-----------------------------------------------------------------------------
(* C14 *)

\* C14: in a tree on which the check returned nil, the guaranteed resource
\* of every child is within the guaranteed resource of its parent, the
\* quantities being signed.
C14_ChildGuaranteeWithinParent ==
    Validated =>
        \A e \in Edges(vres.q) :
            Within(e[2].guaranteedResource, e[1].guaranteedResource)

-----------------------------------------------------------------------------
(* C15 *)

\* the names of the queues of a tree, children in listed order before
\* their parent
RECURSIVE PostOrder(_), PostOrderOf(_, _)
PostOrder(q) == PostOrderOf(q.children, Len(q.children)) \o <<q.Name>>

PostOrderOf(children, n) ==
    IF n = 0 THEN <<>>
    ELSE PostOrderOf(children, n - 1) \o PostOrder(children[n])

\* the queue of that name (names are unique in the trees of InitV)
NodeNamed(root, name) == CHOOSE q \in Queues(root) : q.Name = name

\* the first of the three conditions, in the order of the code, that the
\* queue of that name violates, "nil" if none
ViolationKind(root, name) ==
    IF ExceedsDeclared(NodeNamed(root, name)) THEN "GuaranteedSum"
    ELSE IF \E e \in Edges(root) : e[2].Name = name /\ ExceedsParentMax(e[1], e[2])
         THEN "MaxParent"
    ELSE IF ExceedsOwnMax(NodeNamed(root, name)) THEN "MaxGuaranteed"
    ELSE "nil"

\* k is the position in post-order of the first queue with a violation
FirstViolation(root, k) ==
    /\ k \in 1..Len(PostOrder(root))
    /\ ViolationKind(root, PostOrder(root)[k]) # "nil"
    /\ \A j \in 1..(k - 1) : ViolationKind(root, PostOrder(root)[j]) = "nil"

\* C15: a check that returns an error returns the first violation in
\* post-order (children in listed order, then the queue itself); the queues
\* before it in that order were checked and have a guaranteed resource, the
\* queues after it (later siblings, their subtrees, all ancestors) are as
\* configured: not visited, nothing inferred.
C15_PostOrderFailFast ==
    (vres # Nil /\ vres.err # NoErr) =>
        \E k \in 1..Len(PostOrder(vq)) :
            /\ FirstViolation(vq, k)
            /\ vres.err.queue = PostOrder(vq)[k]
            /\ vres.err.kind = ViolationKind(vq, PostOrder(vq)[k])
            /\ \A j \in 1..(k - 1) :
                  NodeNamed(vres.q, PostOrder(vq)[j]).guaranteedResource # Nil
            /\ \A j \in (k + 1)..Len(PostOrder(vq)) :
                  NodeNamed(vres.q, PostOrder(vq)[j]).guaranteedResource =
                      NodeNamed(vq, PostOrder(vq)[j]).guaranteedResource

\* the check failed in the first child of a root whose second child and the
\* root itself declare no guarantee, and left both without one
C15_Witness ==
    /\ vres # Nil
    /\ Len(vq.children) = 2
    /\ vres.err.kind = "MaxGuaranteed"
    /\ vres.err.queue = vq.children[1].Name
    /\ vq.guaranteedResource = Nil
    /\ vq.children[2].guaranteedResource = Nil
    /\ vres.q.children[2].guaranteedResource = Nil
    /\ vres.q.guaranteedResource = Nil

\* the check failed at a parent after both its children had passed and got
\* their guaranteed resource
C15_WitnessParent ==
    /\ vres # Nil
    /\ Len(vq.children) = 2
    /\ vres.err.kind = "GuaranteedSum"
    /\ vres.err.queue = vq.Name
    /\ vq.children[2].guaranteedResource = Nil
    /\ vres.q.children[2].guaranteedResource = NewResource

-----------------------------------------------------------------------------
(* C16 *)

\* C16: an Update call that returned without error returned as updated
\* partitions one partition per entry of the configuration, in its order,
\* and as removed partitions, each once, the partitions of the map whose
\* key the configuration does not name; no partition is in both lists and
\* every partition of the map after the call is in one of them.
C16_ResultLists ==
    (last.op = "Update" /\ last.load = "ok" /\ last.err = NoErr) =>
        /\ last.updated = [i \in 1..Len(last.conf) |-> Key(last.conf, i, last.rmID)]
        /\ Range(last.deleted) =
               {k \in DOMAIN partitions : k \notin ConfKeys(last.conf, last.rmID)}
        /\ Len(last.deleted) = Cardinality(Range(last.deleted))
        /\ Range(last.updated) \cap Range(last.deleted) = {}
        /\ Range(last.updated) \cup Range(last.deleted) = DOMAIN partitions
        /\ \A k \in DOMAIN partitions : partitions[k] # Nil /\ partitions[k].Name = k

\* an Update call returned two updated partitions and removed ones
C16_Witness ==
    /\ last.op = "Update"
    /\ last.err = NoErr
    /\ Len(last.updated) = 2
    /\ Len(last.deleted) > 0

-----------------------------------------------------------------------------
(* C18 *)

\* C18: after an Update call that returned without error a partition of
\* the map is pending removal exactly when the configuration of the call
\* does not name its key; a partition marked by an earlier call that the
\* configuration names again is active.
C18_StateTracksConfiguration ==
    (last.op = "Update" /\ last.load = "ok" /\ last.err = NoErr) =>
        \A k \in DOMAIN partitions :
            (partitions[k].state = "PendingRemoval")
                <=> (k \notin ConfKeys(last.conf, last.rmID))

-----------------------------------------------------------------------------
(* C19 *)

\* C19: an Update call of resource manager R leaves every partition of
\* another resource manager in the map as it was.
C19_OtherManagersUntouched ==
    [][last'.op = "Update"
          => \A k \in DOMAIN partitions :
                (partitions[k] # Nil /\ partitions[k].RmID # last'.rmID)
                    => (k \in DOMAIN partitions' /\ partitions'[k] = partitions[k])]_vars

-----------------------------------------------------------------------------
(* C20 *)

\* C20: a Set or Update call that returns an error (partitions registered
\* or not registered, configuration not loaded, check of a queue tree
\* failed) leaves the active configuration as it was.
C20_ErrorKeepsActiveConfiguration ==
    [][(/\ last'.op \in {"Set", "Update"}
        /\ \/ last'.err.kind \in {"StateConflict", "ConfigLoad"}
           \/ IsInvalidHierarchy(last'.err))
          => configContext' = configContext]_vars

-----------------------------------------------------------------------------
(* C17 *)

\* the identities of the queue trees reachable from the keys of the map
RegisteredTrees == {partitions[k].Root : k \in {j \in DOMAIN partitions : partitions[j] # Nil}}

\* the check is running on the tree call.cand
Validating == call.pc \in {"check", "own"}

\* C17: while the check runs, in any interleaving with a reader of the map,
\* the tree it writes to is not the root of any partition of the map and is
\* not a tree the reader took from the map; every tree the reader read has
\* all its guaranteed resources set.
C17_ValidatorOnPrivateTree ==
    /\ Validating => call.cand \notin RegisteredTrees
    /\ Validating => reader.held # call.cand
    /\ reader.observed # Nil =>
          \A q \in Queues(reader.observed) : q.guaranteedResource # Nil

\* the check is half way through the new tree for a partition of the map
\* while the reader holds and has read the tree of that partition
C17_Witness ==
    /\ call.pc = "own"
    /\ call.op = "Update"
    /\ CallKey \in DOMAIN partitions
    /\ partitions[CallKey] # Nil
    /\ reader.held = partitions[CallKey].Root
    /\ reader.observed = heap[reader.held]
    /\ heap[call.cand] # heap[reader.held]

====
